---- MODULE Spec2Model ----
(***************************************************************************)
(* Calendar utilities of core-js-dates-tasks.js as a state machine.        *)
(*                                                                         *)
(* A Date object holds a time value, an instant counted from the epoch     *)
(* 1970-01-01T00:00Z.  The model counts instants in whole hours (the       *)
(* source counts milliseconds); the host's local time zone is a fixed      *)
(* offset from UTC, LocalTZA hours, chosen once per run (no daylight       *)
(* saving transitions).                                                    *)
(***************************************************************************)
EXTENDS Integers, Sequences, FiniteSets

VARIABLES
    tz,             \* the host's local time zone offset, hours east of UTC
    pc,             \* position of the one call in progress
    heap,           \* Date objects of getNextFriday: object id -> time value
    before,         \* the caller's Date objects as they were when it called
    arg,            \* getNextFriday: the object passed as `date`
    ret,            \* getNextFriday: the object returned
    cdpPeriod,      \* getCountDaysOnPeriod: <<dateStart, dateEnd>> as parsed instants
    cdpResult,      \* getCountDaysOnPeriod: the number returned
    wnDate,         \* getWeekNumberByDate: the time value of `date`
    wnResult,       \* getWeekNumberByDate: the number returned
    f13Date,        \* getNextFridayThe13th: the time value of `date`
    year,           \* getNextFridayThe13th: const year
    month,          \* getNextFridayThe13th: const month
    givenDay,       \* getNextFridayThe13th: the day counter of the scan
    isFriday13,     \* getNextFridayThe13th: the loop flag
    friday13,       \* getNextFridayThe13th: <<>> for null, <<t>> for a Date
    period,         \* getWorkSchedule: [start, end], 'DD-MM-YYYY' strings
    periodDays,     \* the day numbers the caller wrote down as period.start, period.end
    countWorkDays,  \* getWorkSchedule: argument
    countOffDays,   \* getWorkSchedule: argument
    startDate,      \* getWorkSchedule: const startDate (time value)
    endDate,        \* getWorkSchedule: const endDate (time value)
    currentDate,    \* getWorkSchedule: the Date object advanced by the loop
    schedule,       \* getWorkSchedule: the array of strings
    i               \* getWorkSchedule: the for loop's counter

nfVars == <<heap, before, arg, ret>>

cdpVars == <<cdpPeriod, cdpResult>>

wnVars == <<wnDate, wnResult>>

f13Vars == <<f13Date, year, month, givenDay, isFriday13, friday13>>

wsVars ==
    <<period, periodDays, countWorkDays, countOffDays, startDate, endDate,
      currentDate, schedule, i>>

vars == <<tz, pc, nfVars, cdpVars, wnVars, f13Vars, wsVars>>

(***************************************************************************)
(* Bounds of the model.                                                    *)
(***************************************************************************)
\* getNextFriday: the caller's dates lie on NfDays consecutive days
NfDays == 9

\* getCountDaysOnPeriod: both dates lie in the first CdpDays days of a month
CdpDays == 4

\* getWeekNumberByDate: the dates lie in WnYears years from WnFirstYear on
WnFirstYear == 2023

WnYears == 3

\* getNextFridayThe13th: the dates lie on F13Days consecutive days, and the
\* scan is cut off when its day counter passes MaxGivenDay
F13Days == 40

MaxGivenDay == 500

\* getWorkSchedule: the period starts on one of WsStarts consecutive days and
\* ends at most WsMaxSpan days after its start; the counts are at most MaxCount;
\* a run that never ends is cut off when the current date is MaxBack days
\* before the start or the schedule holds MaxSchedule dates
WsStarts == 2

WsMaxSpan == 7

MaxCount == 3

MaxBack == 3

MaxSchedule == WsMaxSpan + 4

(***************************************************************************)
(* The host's Date arithmetic (ECMAScript time values), in hours.          *)
(***************************************************************************)
HoursPerDay == 24

TimeZones == {0 - 5, 0, 3}

Day(t) == t \div HoursPerDay

TimeWithinDay(t) == t % HoursPerDay

IsLeap(y) == (y % 4 = 0 /\ y % 100 # 0) \/ y % 400 = 0

\* day number of January 1 of year y
DayFromYear(y) ==
    365 * (y - 1970) + ((y - 1969) \div 4) - ((y - 1901) \div 100)
        + ((y - 1601) \div 400)

\* The calendar fields of a day number are functions, so that the day is
\* worked out once and handed on as a value.
YearFromDay[d \in Int] ==
    LET y0 == 1970 + (d \div 365)
    IN  CHOOSE y \in (y0 - 2)..(y0 + 1) :
            DayFromYear(y) <= d /\ d < DayFromYear(y + 1)

\* days of a common year before month m (0 = January)
CommonDaysBefore == <<0, 31, 59, 90, 120, 151, 181, 212, 243, 273, 304, 334, 365>>

\* days of year y before month m; m = 12 gives the length of the year
DaysBeforeMonth[y \in Int, m \in 0..12] ==
    CommonDaysBefore[m + 1] + (IF m >= 2 /\ IsLeap(y) THEN 1 ELSE 0)

DaysInMonth(y, m) == DaysBeforeMonth[y, m + 1] - DaysBeforeMonth[y, m]

DayWithinYear[d \in Int] == d - DayFromYear(YearFromDay[d])

MonthInYear[y \in Int, n \in 0..365] ==
    CHOOSE m \in 0..11 : DaysBeforeMonth[y, m] <= n /\ n < DaysBeforeMonth[y, m + 1]

MonthFromDay[d \in Int] == MonthInYear[YearFromDay[d], DayWithinYear[d]]

DateFromDay[d \in Int] ==
    DayWithinYear[d] - DaysBeforeMonth[YearFromDay[d], MonthFromDay[d]] + 1

WeekDayOfDay(d) == (d + 4) % 7

\* MakeDay: a day of month outside the month carries into the neighbouring months
MakeDay[y \in Int, m \in Int, date \in Int] ==
    DayFromYear(y + (m \div 12)) + DaysBeforeMonth[y + (m \div 12), m % 12] + date - 1

MakeDate(day, time) == day * HoursPerDay + time

LocalTime(t, z) == t + z

UTC(t, z) == t - z

\* new Date(year, month, day): local midnight
NewDate(y, m, day, z) == UTC(MakeDate(MakeDay[y, m, day], 0), z)

getUTCDay(t) == WeekDayOfDay(Day(t))

getDay(t, z) == WeekDayOfDay(Day(LocalTime(t, z)))

getDate(t, z) == DateFromDay[Day(LocalTime(t, z))]

getMonth(t, z) == MonthFromDay[Day(LocalTime(t, z))]

getFullYear(t, z) == YearFromDay[Day(LocalTime(t, z))]

\* the local time lt with its day of month set to dt
SetDateLocal[lt \in Int, dt \in Int] ==
    MakeDate(MakeDay[YearFromDay[Day(lt)], MonthFromDay[Day(lt)], dt], TimeWithinDay(lt))

\* date.setDate(dt): the new time value of the object
setDate(t, dt, z) == UTC(SetDateLocal[LocalTime(t, z), dt], z)

(***************************************************************************)
(* getNextFriday                                                           *)
(***************************************************************************)
\* 2024-02-20, a Tuesday: a week on from these days runs into March
NfFirstDay == MakeDay[2024, 1, 20]

NfInstants ==
    { MakeDate(NfFirstDay + d, h) : d \in 0..(NfDays - 1), h \in {0, 7, 23} }

\* the caller owns two Date objects; getNextFriday allocates a third
CallerObjs == {1, 2}

NewObj == 3

AddedDaysFri(currentDay) == IF currentDay > 5 THEN 5 - currentDay + 7 ELSE 5 - currentDay

\* lines 94-96
AddedDays(currentDay) == IF currentDay >= 5 THEN 5 - currentDay + 7 ELSE 5 - currentDay

\* the Friday is set on the copy, and the copy is returned
getNextFridayCopy(h, a, z) ==
    LET newDate    == h[a]
        currentDay == getUTCDay(newDate)
        addedDays  == AddedDays(currentDay)
    IN  [heap |-> [o \in DOMAIN h \cup {NewObj} |->
                      IF o = NewObj
                      THEN setDate(newDate, getDate(newDate, z) + addedDays, z)
                      ELSE h[o]],
         ret  |-> NewObj]

\* the whole call on the heap h with `date` bound to object a
getNextFriday(h, a, z) ==
    LET newDate    == h[a]
        currentDay == getUTCDay(newDate)
        addedDays  == AddedDays(currentDay)
    IN  [heap |-> [o \in DOMAIN h \cup {NewObj} |->
                      IF o = a
                      THEN setDate(h[a], getDate(newDate, z) + addedDays, z)
                      ELSE IF o = NewObj THEN newDate ELSE h[o]],
         ret  |-> a]

NoHeap == [o \in {} |-> 0]

\* the caller builds its Date objects and calls getNextFriday on one of them
NfCall ==
    /\ pc = "idle"
    /\ \E a \in CallerObjs, t \in NfInstants, u \in NfInstants :
          LET h == [o \in CallerObjs |-> IF o = a THEN t ELSE u]
          IN  /\ before' = h
              /\ arg' = a
              /\ heap' = getNextFriday(h, a, tz).heap
              /\ ret' = getNextFriday(h, a, tz).ret
    /\ pc' = "nf_done"
    /\ UNCHANGED <<tz, cdpVars, wnVars, f13Vars, wsVars>>

(***************************************************************************)
(* getCountDaysOnPeriod                                                    *)
(***************************************************************************)
\* A JavaScript number that need not be whole: whole + frac / per, 0 <= frac < per
Quotient(a, b) == [whole |-> a \div b, frac |-> a % b, per |-> b]

PlusInt(q, n) == [q EXCEPT !.whole = q.whole + n]

IsInteger(q) == q.frac = 0

NoNumber == Quotient(0, 1)

\* an ISO 8601 string 'YYYY-MM-DDTHH:00:00.000Z', by its fields
IsoString(y, m, d, h) == [year |-> y, month |-> m, day |-> d, hour |-> h]

\* new Date(isoString): the fields are UTC
ParseIso(s) == MakeDate(MakeDay[s.year, s.month - 1, s.day], s.hour)

CdpStrings ==
    { IsoString(2024, 2, d, h) : d \in 1..CdpDays, h \in {0, 6, 12} }

getCountDaysOnPeriod(dateStart, dateEnd) ==
    LET newDateStart == ParseIso(dateStart)
        newDateEnd   == ParseIso(dateEnd)
        difference   == newDateEnd - newDateStart
    IN  PlusInt(Quotient(difference, HoursPerDay), 1)

CdpCall ==
    /\ pc = "idle"
    /\ \E s \in CdpStrings, e \in CdpStrings :
          /\ cdpPeriod' = <<ParseIso(s), ParseIso(e)>>
          /\ cdpResult' = getCountDaysOnPeriod(s, e)
    /\ pc' = "cdp_done"
    /\ UNCHANGED <<tz, nfVars, wnVars, f13Vars, wsVars>>

(***************************************************************************)
(* getWeekNumberByDate                                                     *)
(***************************************************************************)
Floor(a, b) == a \div b

Ceil(a, b) == 0 - ((0 - a) \div b)

WnYearSet == WnFirstYear..(WnFirstYear + WnYears - 1)

\* every local day of the years, early and late in the day
WnInstants(z) ==
    { NewDate(y, 0, n, z) + h : y \in WnYearSet, n \in 1..366, h \in {0, 23} }

StartOfTheWeekRaw(startOfTheYear, z) == getDay(startOfTheYear, z)

\* lines 255-256
StartOfTheWeek(startOfTheYear, z) ==
    IF getDay(startOfTheYear, z) = 0 THEN 7 ELSE getDay(startOfTheYear, z)

getWeekNumberByDate(date, z) ==
    LET newDate        == date
        startOfTheYear == NewDate(getFullYear(newDate, z), 0, 1, z)
        daysAfterStartOfTheYear == Floor(newDate - startOfTheYear, HoursPerDay)
        startOfTheWeek == StartOfTheWeek(startOfTheYear, z)
    IN  Ceil(daysAfterStartOfTheYear + startOfTheWeek, 7)

WnCall ==
    /\ pc = "idle"
    /\ \E t \in WnInstants(tz) :
          /\ wnDate' = t
          /\ wnResult' = getWeekNumberByDate(t, tz)
    /\ pc' = "wn_done"
    /\ UNCHANGED <<tz, nfVars, cdpVars, f13Vars, wsVars>>

(***************************************************************************)
(* getNextFridayThe13th                                                    *)
(***************************************************************************)
\* 2023-10-01; October 13, 2023 is a Friday, the next one is September 13, 2024
F13FirstDay == MakeDay[2023, 9, 1]

F13Instants ==
    { MakeDate(F13FirstDay + d, h) : d \in 0..(F13Days - 1), h \in {2, 22} }

\* line 275
FirstGivenDay(newDate, z) == getDay(newDate, z)

IsFridayOnly(nextDay, nextDate) == nextDay = 5

\* line 286
IsFriday13(nextDay, nextDate) == nextDay = 5 /\ nextDate = 13

StuckGivenDay(d) == d

\* line 291
NextGivenDay(d) == d + 1

\* lines 274-279
F13Call ==
    /\ pc = "idle"
    /\ \E t \in F13Instants :
          LET newDate == t
          IN  /\ f13Date' = t
              /\ givenDay' = FirstGivenDay(newDate, tz)
              /\ year' = getFullYear(newDate, tz)
              /\ month' = getMonth(newDate, tz)
    /\ isFriday13' = FALSE
    /\ friday13' = <<>>
    /\ pc' = "f13_loop"
    /\ UNCHANGED <<tz, nfVars, cdpVars, wnVars, wsVars>>

\* one turn of the while loop, lines 281-292
F13Step ==
    /\ pc = "f13_loop"
    /\ ~isFriday13
    /\ givenDay <= MaxGivenDay
    /\ LET nextFullDate == NewDate(year, month, givenDay, tz)
           nextDay      == getDay(nextFullDate, tz)
           nextDate     == getDate(nextFullDate, tz)
       IN  IF IsFriday13(nextDay, nextDate)
           THEN /\ isFriday13' = TRUE
                /\ friday13' = <<nextFullDate>>
           ELSE UNCHANGED <<isFriday13, friday13>>
    /\ givenDay' = NextGivenDay(givenDay)
    /\ UNCHANGED <<tz, pc, nfVars, cdpVars, wnVars, wsVars, f13Date, year, month>>

\* the loop ends, line 293
F13Return ==
    /\ pc = "f13_loop"
    /\ isFriday13
    /\ pc' = "f13_done"
    /\ UNCHANGED <<tz, nfVars, cdpVars, wnVars, f13Vars, wsVars>>

(***************************************************************************)
(* getWorkSchedule                                                         *)
(***************************************************************************)
\* Strings are sequences of one-character strings.
Digits == <<"0", "1", "2", "3", "4", "5", "6", "7", "8", "9">>

DigitValue(c) == CHOOSE n \in 0..9 : Digits[n + 1] = c

\* `${n}` of a number n >= 0
NumberToString[n \in Nat] ==
    IF n < 10 THEN <<Digits[n + 1]>>
    ELSE NumberToString[n \div 10] \o <<Digits[(n % 10) + 1]>>

\* Number(s) of a string of digits
RECURSIVE StringToNumber(_)
StringToNumber(s) ==
    IF s = <<>> THEN 0
    ELSE StringToNumber(SubSeq(s, 1, Len(s) - 1)) * 10 + DigitValue(s[Len(s)])

\* s.slice(-2)
SliceLast2(s) == IF Len(s) <= 2 THEN s ELSE SubSeq(s, Len(s) - 1, Len(s))

\* `0${n}`.slice(-2)
ZeroSliceLast2[n \in Nat] == SliceLast2(<<"0">> \o NumberToString[n])

\* s.split(sep)
RECURSIVE Split(_, _)
Split(s, sep) ==
    IF \A k \in 1..Len(s) : s[k] # sep THEN <<s>>
    ELSE LET k == CHOOSE j \in 1..Len(s) :
                      s[j] = sep /\ \A l \in 1..(j - 1) : s[l] # sep
         IN  <<SubSeq(s, 1, k - 1)>> \o Split(SubSeq(s, k + 1, Len(s)), sep)

\* new Date(year, month - 1, day) of the three parts of a 'DD-MM-YYYY' string
ParsePeriodDate(str, z) ==
    LET parts == Split(str, "-")
    IN  NewDate(StringToNumber(parts[3]), StringToNumber(parts[2]) - 1,
                StringToNumber(parts[1]), z)

\* lines 354-359
formatScheduleDate(date, z) ==
    LET d == ZeroSliceLast2[getDate(date, z)]
        m == ZeroSliceLast2[getMonth(date, z) + 1]
        y == NumberToString[getFullYear(date, z)]
    IN  d \o <<"-">> \o m \o <<"-">> \o y

\* The caller's way of writing the day with number n as 'DD-MM-YYYY'.
DateString(n) ==
    LET d == DateFromDay[n]
        m == MonthFromDay[n] + 1
        y == YearFromDay[n]
    IN  <<Digits[(d \div 10) + 1], Digits[(d % 10) + 1], "-",
          Digits[(m \div 10) + 1], Digits[(m % 10) + 1], "-",
          Digits[(y \div 1000) + 1], Digits[((y \div 100) % 10) + 1],
          Digits[((y \div 10) % 10) + 1], Digits[(y % 10) + 1]>>

\* 2023-12-29: the periods run over the end of a month and of a year
WsFirstDay == MakeDay[2023, 11, 29]

WsCounts == (0 - 2)..MaxCount

WhileCondStrict(cur, end) == cur < end

\* line 361
WhileCond(cur, end) == cur <= end

ForCondNoEnd(n, work, cur, end) == n < work

\* line 362
ForCond(n, work, cur, end) == n < work /\ cur <= end

AfterOffDaysPlusOne(cur, off, z) == setDate(cur, getDate(cur, z) + off + 1, z)

\* line 367
AfterOffDays(cur, off, z) == setDate(cur, getDate(cur, z) + off, z)

\* lines 345-352
WsCall ==
    /\ pc = "idle"
    /\ \E s \in WsFirstDay..(WsFirstDay + WsStarts - 1), span \in (0 - 1)..WsMaxSpan,
          w \in WsCounts, o \in WsCounts :
          /\ periodDays' = <<s, s + span>>
          /\ period' = [start |-> DateString(s), end |-> DateString(s + span)]
          /\ countWorkDays' = w
          /\ countOffDays' = o
    /\ startDate' = ParsePeriodDate(period'.start, tz)
    /\ endDate' = ParsePeriodDate(period'.end, tz)
    /\ schedule' = <<>>
    /\ currentDate' = startDate'
    /\ i' = 0
    /\ pc' = "ws_while"
    /\ UNCHANGED <<tz, nfVars, cdpVars, wnVars, f13Vars>>

\* line 361, the condition holds; line 362, let i = 0
WsEnterLoop ==
    /\ pc = "ws_while"
    /\ WhileCond(currentDate, endDate)
    /\ i' = 0
    /\ pc' = "ws_for"
    /\ UNCHANGED <<tz, nfVars, cdpVars, wnVars, f13Vars, period, periodDays,
                   countWorkDays, countOffDays, startDate, endDate, currentDate,
                   schedule>>

\* line 361, the condition fails; line 371
WsReturn ==
    /\ pc = "ws_while"
    /\ ~WhileCond(currentDate, endDate)
    /\ pc' = "ws_done"
    /\ UNCHANGED <<tz, nfVars, cdpVars, wnVars, f13Vars, wsVars>>

\* lines 362-365, one turn of the for loop
WsWorkDay ==
    /\ pc = "ws_for"
    /\ ForCond(i, countWorkDays, currentDate, endDate)
    /\ Len(schedule) < MaxSchedule
    /\ schedule' = Append(schedule, formatScheduleDate(currentDate, tz))
    /\ currentDate' = setDate(currentDate, getDate(currentDate, tz) + 1, tz)
    /\ i' = i + 1
    /\ UNCHANGED <<tz, pc, nfVars, cdpVars, wnVars, f13Vars, period, periodDays,
                   countWorkDays, countOffDays, startDate, endDate>>

\* line 362, the condition fails
WsEndRun ==
    /\ pc = "ws_for"
    /\ ~ForCond(i, countWorkDays, currentDate, endDate)
    /\ pc' = "ws_if"
    /\ UNCHANGED <<tz, nfVars, cdpVars, wnVars, f13Vars, wsVars>>

\* lines 366-368, the off days are skipped
WsOffDays ==
    /\ pc = "ws_if"
    /\ currentDate <= endDate
    /\ currentDate >= startDate - MaxBack * HoursPerDay
    /\ currentDate' = AfterOffDays(currentDate, countOffDays, tz)
    /\ pc' = "ws_while"
    /\ UNCHANGED <<tz, nfVars, cdpVars, wnVars, f13Vars, period, periodDays,
                   countWorkDays, countOffDays, startDate, endDate, schedule, i>>

\* line 366, the condition fails
WsNoOffDays ==
    /\ pc = "ws_if"
    /\ ~(currentDate <= endDate)
    /\ pc' = "ws_while"
    /\ UNCHANGED <<tz, nfVars, cdpVars, wnVars, f13Vars, wsVars>>

(***************************************************************************)
(* The machine                                                             *)
(***************************************************************************)
Init ==
    /\ tz \in TimeZones
    /\ pc = "idle"
    /\ heap = NoHeap
    /\ before = NoHeap
    /\ arg = 0
    /\ ret = 0
    /\ cdpPeriod = <<>>
    /\ cdpResult = NoNumber
    /\ wnDate = 0
    /\ wnResult = 0
    /\ f13Date = 0
    /\ year = 0
    /\ month = 0
    /\ givenDay = 0
    /\ isFriday13 = FALSE
    /\ friday13 = <<>>
    /\ period = [start |-> <<>>, end |-> <<>>]
    /\ periodDays = <<0, 0>>
    /\ countWorkDays = 0
    /\ countOffDays = 0
    /\ startDate = 0
    /\ endDate = 0
    /\ currentDate = 0
    /\ schedule = <<>>
    /\ i = 0

Next ==
    \/ NfCall
    \/ CdpCall
    \/ WnCall
    \/ F13Call
    \/ F13Step
    \/ F13Return
    \/ WsCall
    \/ WsEnterLoop
    \/ WsReturn
    \/ WsWorkDay
    \/ WsEndRun
    \/ WsOffDays
    \/ WsNoOffDays

Spec == Init /\ [][Next]_vars

\* A call that has started keeps running: its loop takes its next step.
F13Run ==
    \/ F13Step
    \/ F13Return

WsRun ==
    \/ WsEnterLoop
    \/ WsReturn
    \/ WsWorkDay
    \/ WsEndRun
    \/ WsOffDays
    \/ WsNoOffDays

FairSpec == Spec /\ WF_vars(F13Run) /\ WF_vars(WsRun)

(***************************************************************************)
(* The claims                                                              *)
(***************************************************************************)
\* the days of the period that fall in the work part of a cycle
WorkDaysOfPeriod ==
    { d \in periodDays[1]..periodDays[2] :
          (d - periodDays[1]) % (countWorkDays + countOffDays) < countWorkDays }

PositiveCounts == countWorkDays > 0 /\ countOffDays > 0

\* C1: for start <= end and positive counts W and O, getWorkSchedule returns,
\* in strictly ascending order and without duplicates, exactly the dates d with
\* start <= d <= end and (d - start) mod (W + O) < W; no date after end appears.
T_C1_Schedule ==
    (pc = "ws_done" /\ PositiveCounts /\ periodDays[1] <= periodDays[2]) =>
        /\ Len(schedule) = Cardinality(WorkDaysOfPeriod)
        /\ \A k \in 1..Len(schedule) :
              \E d \in WorkDaysOfPeriod :
                  /\ schedule[k] = DateString(d)
                  /\ k < Len(schedule) =>
                        \E e \in WorkDaysOfPeriod :
                            e > d /\ schedule[k + 1] = DateString(e)

W_C1_Schedule ==
    /\ pc = "ws_done"
    /\ countWorkDays = 3
    /\ countOffDays = 2
    /\ periodDays[2] = periodDays[1] + 6
    /\ Len(schedule) = 5
    /\ schedule[5] = period.end

\* C2: the date getNextFridayThe13th returns is never earlier than the input
\* date: it falls on a later calendar day, or on the input's own day only when
\* the input is itself a Friday the 13th.
CE_C2_NotEarlier ==
    pc = "f13_done" =>
        LET inDay  == Day(LocalTime(f13Date, tz))
            outDay == Day(LocalTime(friday13[1], tz))
        IN  \/ outDay > inDay
            \/ /\ outDay = inDay
               /\ getDay(f13Date, tz) = 5
               /\ getDate(f13Date, tz) = 13

\* C3: for positive counts the loop of getWorkSchedule terminates, and when it
\* stops the current date is strictly greater than end; for start > end it
\* stops at once with an empty schedule.
T_C3_LoopTerminates ==
    /\ (pc = "ws_while" /\ PositiveCounts) ~> (pc = "ws_done")
    /\ []((pc = "ws_done" /\ PositiveCounts) =>
              /\ currentDate > endDate
              /\ Len(schedule) <= periodDays[2] - periodDays[1] + 1
              /\ (periodDays[1] > periodDays[2] =>
                      schedule = <<>> /\ currentDate = startDate))

W_C3_LoopTerminates ==
    /\ pc = "ws_done"
    /\ PositiveCounts
    /\ periodDays[2] - periodDays[1] = WsMaxSpan
    /\ currentDate > endDate + HoursPerDay
    /\ Len(schedule) > 2

\* C4: for start <= end, whenever countWorkDays or countOffDays is zero or
\* negative, getWorkSchedule does not finish normally.
CE_C4_NeverFinishes ==
    (periodDays[1] <= periodDays[2] /\ (countWorkDays <= 0 \/ countOffDays <= 0)) =>
        pc # "ws_done"

WorkRun == IF countWorkDays > 0 THEN countWorkDays ELSE 0

\* a cycle of work days and off days leaves the current date where it was
NoNetProgress ==
    /\ periodDays[1] <= periodDays[2]
    /\ countOffDays = 0 - WorkRun
    /\ periodDays[2] - periodDays[1] >= WorkRun

\* C4 as amended: for start <= end getWorkSchedule does not finish normally
\* when a cycle makes no net progress, that is when countWorkDays <= 0 and
\* countOffDays = 0, or countWorkDays > 0, countOffDays = -countWorkDays and
\* end lies at least countWorkDays days after start.
T_C4_NoNetProgress ==
    NoNetProgress => pc # "ws_done"

W_C4_NoNetProgress ==
    /\ NoNetProgress
    /\ countWorkDays > 0
    /\ pc = "ws_while"
    /\ Len(schedule) > periodDays[2] - periodDays[1] + 1

T_C6_InPlace ==
    pc = "nf_done" =>
        /\ ret = arg
        /\ heap[arg] # before[arg]
        /\ getUTCDay(heap[arg]) = 5
        /\ heap[arg] = before[arg] + AddedDays(getUTCDay(before[arg])) * HoursPerDay
        /\ \A o \in CallerObjs \ {arg} : heap[o] = before[o]

W_C6_InPlace ==
    /\ pc = "nf_done"
    /\ ret = arg
    /\ heap[arg] # before[arg]
    /\ \E o \in CallerObjs \ {arg} : heap[o] = before[arg]

CE_C8_WholeDays ==
    (pc = "cdp_done" /\ cdpPeriod[2] >= cdpPeriod[1]) =>
        /\ IsInteger(cdpResult)
        /\ cdpResult.whole = ((cdpPeriod[2] - cdpPeriod[1]) \div HoursPerDay) + 1

\* C9: the date getNextFridayThe13th returns is a Friday and the 13th of its
\* month, also when the day counter ran past the end of the input's month and
\* year.
T_C9_Friday13 ==
    pc = "f13_done" =>
        /\ Len(friday13) = 1
        /\ getDay(friday13[1], tz) = 5
        /\ getDate(friday13[1], tz) = 13

W_C9_Friday13 ==
    /\ pc = "f13_done"
    /\ givenDay > DaysInMonth(year, month) + 1
    /\ getFullYear(friday13[1], tz) > year

\* C10: the scan of getNextFridayThe13th terminates: once started it reaches,
\* after finitely many increments of the day counter, a Friday the 13th and
\* the function returns.
T_C10_ScanTerminates ==
    (pc = "f13_loop") ~> (pc = "f13_done" /\ isFriday13)

W_C10_ScanTerminates ==
    /\ pc = "f13_done"
    /\ isFriday13
    /\ givenDay > 300
====
